---- MODULE Spec2Model ----
(***************************************************************************)
(* A model of reminders.py (rickwporter/reminders): the person resolver    *)
(* (find_user), the correlator (correlate), the validators                 *)
(* (validate_users, validate_actions), the template substitutor            *)
(* (substitute, get_fields), the table renderer (_create_table), the       *)
(* delivery orchestrator (send_all_emails, interactive_send_email) and     *)
(* the main function (run) with its gates and its due-date window.         *)
(*                                                                         *)
(* Python values are modelled as follows.                                  *)
(*   str       a record [t |-> "str", v |-> <sequence of 1-character       *)
(*             strings>]                                                   *)
(*   None      [t |-> "None", v |-> <<>>]                                  *)
(*   float nan [t |-> "float", v |-> <<>>]   (pandas' empty cell)          *)
(*   datetime  [t |-> "datetime", v |-> <<day, second-of-day>>]            *)
(*   dict      a function from keys (character sequences) to values        *)
(***************************************************************************)
EXTENDS Integers, Sequences, FiniteSets, TLC

VARIABLES
    users,              \* List[Dict]: the people records
    actions,            \* List[Dict]: the action records
    msg_preamble,       \* Reminders.msg_preamble
    msg_close,          \* Reminders.msg_close
    msg_table_headers,  \* Reminders.msg_table_headers
    days,               \* args.days
    arg,                \* the argument of the call under way (a query, a template)
    pc,                 \* position of the control flow
    ret,                \* what the call returned or raised
    ai,                 \* correlate: index of the action being scanned
    ti,                 \* correlate: index of the assignee token being scanned
    uname_actions,      \* correlate: the insertion-ordered dict uname -> actions
    user_actions,       \* the Grouping handed to the orchestrator
    idx,                \* orchestrator: index of the pair being processed
    server,             \* orchestrator: the local variable server
    smtp,               \* the mail transport's history: what was asked of it
    out,                \* lines given to Reminders.print
    unset,              \* the attributes of the Reminders object that are None or empty
    stdin               \* what input() has read from the operator so far

vars == <<users, actions, msg_preamble, msg_close, msg_table_headers, days, arg,
          pc, ret, ai, ti, uname_actions, user_actions, idx, server, smtp, out,
          unset, stdin>>

-----------------------------------------------------------------------------
(* Bounds of the model. *)

MaxUsers == 2
MaxActions == 2
MaxQueryLen == 2
MaxPieces == 3

-----------------------------------------------------------------------------
(* Python strings. *)

Upper == <<"A","B","C","D","E","F","G","H","I","J","K","L","M",
           "N","O","P","Q","R","S","T","U","V","W","X","Y","Z">>
Lower == <<"a","b","c","d","e","f","g","h","i","j","k","l","m",
           "n","o","p","q","r","s","t","u","v","w","x","y","z">>

\* The characters of the model in code-point order (what sorted() compares).
CodePoints == <<"\t", "\n", " ", "(", ")", ",", "-", "/",
                "0","1","2","3","4","5","6","7","8","9", ":", "@">>
              \o Upper \o <<"_">> \o Lower \o <<"{", "}">>

Whitespace == {" ", "\t", "\n"}

Chars == {CodePoints[i] : i \in 1..Len(CodePoints)}

OrdTable == [c \in Chars |-> CHOOSE i \in 1..Len(CodePoints) : CodePoints[i] = c]

Ord(c) == OrdTable[c]

LowerTable == [c \in Chars |-> IF \E i \in 1..26 : Upper[i] = c
                               THEN Lower[CHOOSE i \in 1..26 : Upper[i] = c]
                               ELSE c]

lowerChar(c) == IF c \in Chars THEN LowerTable[c] ELSE c

\* str.lower()
lower(s) == [i \in 1..Len(s) |-> lowerChar(s[i])]

\* str.strip(): leading and trailing whitespace removed
strip(s) ==
    LET keep == {i \in 1..Len(s) : s[i] \notin Whitespace}
    IN IF keep = {} THEN <<>>
       ELSE LET lo == CHOOSE i \in keep : \A j \in keep : i <= j
                hi == CHOOSE i \in keep : \A j \in keep : j <= i
            IN SubSeq(s, lo, hi)

\* sub in s
Contains(s, sub) ==
    \E i \in 0..(Len(s) - Len(sub)) : SubSeq(s, i + 1, i + Len(sub)) = sub

\* a < b for str (lexicographic by code point)
StrLess(a, b) ==
    \E i \in 1..Len(b) :
        /\ i <= Len(a) + 1
        /\ \A j \in 1..(i - 1) : a[j] = b[j]
        /\ (i = Len(a) + 1 \/ Ord(a[i]) < Ord(b[i]))

RECURSIVE join(_, _)
\* sep.join(parts)
join(sep, parts) ==
    IF parts = <<>> THEN <<>>
    ELSE IF Len(parts) = 1 THEN parts[1]
    ELSE parts[1] \o sep \o join(sep, Tail(parts))

RECURSIVE split(_, _)
\* s.split(sep) for a one-character sep
split(s, sep) ==
    IF \A i \in 1..Len(s) : s[i] # sep THEN <<s>>
    ELSE LET p == CHOOSE i \in 1..Len(s) :
                      s[i] = sep /\ \A j \in 1..(i - 1) : s[j] # sep
         IN <<SubSeq(s, 1, p - 1)>> \o split(SubSeq(s, p + 1, Len(s)), sep)

RECURSIVE sorted(_)
\* sorted(set of str)
sorted(S) ==
    IF S = {} THEN <<>>
    ELSE LET m == CHOOSE x \in S : \A y \in S : y = x \/ StrLess(x, y)
         IN <<m>> \o sorted(S \ {m})

Digits == <<"0","1","2","3","4","5","6","7","8","9">>

RECURSIVE Dec(_)
\* str(n) for an int
Dec(n) ==
    IF n < 0 THEN <<"-">> \o Dec(0 - n)
    ELSE IF n < 10 THEN <<Digits[n + 1]>>
    ELSE Dec(n \div 10) \o <<Digits[(n % 10) + 1]>>

-----------------------------------------------------------------------------
(* Python values and dicts. *)

Str(s) == [t |-> "str", v |-> s]
None == [t |-> "None", v |-> <<>>]
NaN == [t |-> "float", v |-> <<>>]
DateTime(d, s) == [t |-> "datetime", v |-> <<d, s>>]

\* isinstance(v, str)
IsStr(v) == v.t = "str"

\* dict.get(k)
Get(d, k) == IF k \in DOMAIN d THEN d[k] ELSE None

\* module constants
ROW_HEADER == <<"_","r","o","w">>
DAYS == <<"d","a","y","s">>

\* The configuration of the runs modelled (Reminders.update_config): the column
\* headers and the sheet names are one or two characters long.
hdr_user == <<"U">>
hdr_email == <<"E">>
hdr_id == <<"I">>
hdr_due == <<"D">>
hdr_status == <<"S">>
tab_user == <<"P">>
tab_action == <<"T">>

\* sheet_to_dict: item[ROW_HEADER] = f"{sheetname}:{row + 1}", for every row
sheet_to_dict(rows, sheetname) ==
    [i \in 1..Len(rows) |->
        [k \in (DOMAIN rows[i]) \cup {ROW_HEADER} |->
            IF k = ROW_HEADER THEN Str(sheetname \o <<":">> \o Dec(i))
            ELSE rows[i][k]]]

\* All sequences over S of length 0..n
SeqsUpTo(S, n) == UNION {[1..k -> S] : k \in 0..n}

-----------------------------------------------------------------------------
(* Reminders.find_user *)

\* the inner loop over user.values()
UserMatches(user, searchname) ==
    \E k \in DOMAIN user : IsStr(user[k]) /\ Contains(lower(user[k].v), searchname)

find_user_first(us, username) ==
    IF ~IsStr(username) THEN [kind |-> "AttributeError"]
    ELSE
    LET searchname == strip(lower(username.v))
        matches == SelectSeq(us, LAMBDA u : UserMatches(u, searchname))
    IN IF matches = <<>> THEN [kind |-> "None"]
       ELSE [kind |-> "user", user |-> matches[1]]

find_user(us, username) ==
    IF ~IsStr(username) THEN [kind |-> "AttributeError"]
    ELSE
    LET searchname == strip(lower(username.v))
        matches == SelectSeq(us, LAMBDA u : UserMatches(u, searchname))
    IN IF matches = <<>> THEN [kind |-> "None"]
       ELSE IF Len(matches) > 1
            THEN [kind |-> "AmbiguousUser", username |-> username.v,
                  matches |-> [i \in 1..Len(matches) |-> Get(matches[i], ROW_HEADER)]]
            ELSE [kind |-> "user", user |-> matches[1]]

-----------------------------------------------------------------------------
(* What each part of the program leaves alone. *)

NoCall == [kind |-> "pending"]

IdleConfig == /\ msg_preamble = <<>>
              /\ msg_close = <<>>
              /\ msg_table_headers = <<>>
              /\ days = 0
              /\ unset = {}
IdleCorrelate == ai = 0 /\ ti = 0 /\ uname_actions = <<>>
IdleDelivery == /\ user_actions = <<>>
                /\ idx = 0
                /\ server = "None"
                /\ smtp = <<>>
                /\ out = <<>>
                /\ stdin = <<>>

configVars == <<msg_preamble, msg_close, msg_table_headers, days, unset>>
dataVars == <<users, actions>>
correlateVars == <<ai, ti, uname_actions>>
deliveryVars == <<user_actions, idx, server, smtp, out, stdin>>

-----------------------------------------------------------------------------
(* The resolver on its own: find_user(users, username) for any people and  *)
(* any query.                                                              *)

ResolvePeople ==
    { (hdr_user :> Str(<<"F","r"," ","F">>) @@ hdr_email :> Str(<<"f","@","s">>)
         @@ <<"A">> :> Str(<<"F","F">>)),
      (hdr_user :> Str(<<"W","i"," ","F">>) @@ hdr_email :> Str(<<"w","@","s">>)
         @@ <<"A">> :> Str(<<"W","F">>)),
      (hdr_user :> Str(<<"B","a">>) @@ hdr_email :> NaN @@ <<"A">> :> None),
      (<<"A">> :> Str(<<"f","1">>)) }

QueryChars == {"f", "F", "w", " ", "@", ":", "1"}

InitResolve ==
    /\ users \in {sheet_to_dict(r, tab_user) : r \in SeqsUpTo(ResolvePeople, MaxUsers)}
    /\ actions = <<>>
    /\ arg \in {Str(q) : q \in SeqsUpTo(QueryChars, MaxQueryLen)}
    /\ pc = "find_user"
    /\ ret = NoCall
    /\ IdleConfig /\ IdleCorrelate /\ IdleDelivery

FindUser ==
    /\ pc = "find_user"
    /\ ret' = find_user(users, arg)
    /\ pc' = "done"
    /\ UNCHANGED <<dataVars, configVars, arg, correlateVars, deliveryVars>>

NextResolve == FindUser

SpecResolve == InitResolve /\ [][NextResolve]_vars

\* The candidates of a query, as the resolver's contract states them: the
\* people one of whose string fields holds the trimmed, lower-cased query.
Candidates(us, q) ==
    {i \in 1..Len(us) :
        \E k \in DOMAIN us[i] :
            /\ us[i][k].t = "str"
            /\ \E a, b \in 0..Len(us[i][k].v) :
                   /\ a <= b
                   /\ lower(SubSeq(us[i][k].v, a + 1, b)) = strip(lower(q))}

\* C1: find_user returns None when no person is a candidate, the candidate when
\* there is exactly one, and raises AmbiguousUser when there are two or more;
\* it never returns one of several candidates.
ResolveContract ==
    pc = "done" =>
        LET cand == Candidates(users, arg.v)
        IN /\ cand = {} => ret.kind = "None"
           /\ Cardinality(cand) = 1 =>
                  /\ ret.kind = "user"
                  /\ \A i \in cand : ret.user = users[i]
           /\ Cardinality(cand) >= 2 => ret.kind = "AmbiguousUser"
           /\ ret.kind \in {"None", "user", "AmbiguousUser"}

\* A query in upper case with a blank around it resolved to one person of
\* several, through a field other than the user name.
ResolveWitness ==
    /\ pc = "done"
    /\ ret.kind = "user"
    /\ Len(users) >= 2
    /\ arg.v # strip(lower(arg.v))
    /\ hdr_user \in DOMAIN ret.user
    /\ ~Contains(lower(Get(ret.user, hdr_user).v), strip(lower(arg.v)))

-----------------------------------------------------------------------------
(* Reminders.correlate, one assignee token at a time. *)

\* MissingUser(username, record, row)
MissingUser_swapped(username, record, row) ==
    [kind |-> "MissingUser", username |-> username, record |-> row, row |-> record]

MissingUser(username, record, row) ==
    [kind |-> "MissingUser", username |-> username, record |-> record, row |-> row]

\* The index of key uname in the dict (0: not a key). Keys are compared as
\* Python compares them: a str equals a str of the same characters, None is None.
KeyIndex(ua, uname) ==
    LET hits == {i \in 1..Len(ua) : ua[i].uname = uname}
    IN IF hits = {} THEN 0 ELSE CHOOSE i \in hits : TRUE

accumulate_overwrite(ua, uname, action) ==
    LET i == KeyIndex(ua, uname)
    IN IF i = 0 THEN Append(ua, [uname |-> uname, uact |-> <<action>>])
       ELSE [ua EXCEPT ![i].uact = <<action>>]

accumulate_newpair(ua, uname, action) ==
    Append(ua, [uname |-> uname, uact |-> <<action>>])

\* uact = uname_actions.get(uname, []); uact.append(action);
\* uname_actions.update({uname: uact}): a new key goes last, a known key keeps
\* its place
accumulate(ua, uname, action) ==
    LET i == KeyIndex(ua, uname)
    IN IF i = 0 THEN Append(ua, [uname |-> uname, uact |-> <<action>>])
       ELSE [ua EXCEPT ![i].uact = Append(@, action)]

\* The inner loop's body for one token
CorrelateToken ==
    /\ pc = "correlate"
    /\ ai <= Len(actions)
    /\ LET action == actions[ai]
           assignee == Get(action, hdr_user)
       IN IF ~IsStr(assignee)
          THEN /\ pc' = "raised"
               /\ ret' = [kind |-> "AttributeError"]
               /\ UNCHANGED correlateVars
          ELSE
          LET tokens == split(assignee.v, "/")
              username == tokens[ti]
              found == find_user(users, Str(username))
          IN IF found.kind = "AmbiguousUser"
             THEN /\ pc' = "raised"
                  /\ ret' = found
                  /\ UNCHANGED correlateVars
             ELSE IF found.kind = "None"
             THEN /\ pc' = "raised"
                  /\ ret' = MissingUser(username, Get(action, hdr_id),
                                        Get(action, ROW_HEADER))
                  /\ UNCHANGED correlateVars
             ELSE /\ uname_actions' =
                         accumulate(uname_actions, Get(found.user, hdr_user), action)
                  /\ IF ti < Len(tokens)
                     THEN ti' = ti + 1 /\ ai' = ai
                     ELSE ti' = 1 /\ ai' = ai + 1
                  /\ UNCHANGED <<pc, ret>>
    /\ UNCHANGED <<dataVars, configVars, arg, deliveryVars>>

\* The first exception of the final list comprehension, if one is raised
MaterializeError(us, ua) ==
    LET bad == {i \in 1..Len(ua) : find_user(us, ua[i].uname).kind
                                       \in {"AmbiguousUser", "AttributeError"}}
    IN IF bad = {} THEN NoCall
       ELSE find_user(us, ua[CHOOSE i \in bad : \A j \in bad : i <= j].uname)

\* [(self.find_user(users, uname), uact) for uname, uact in uname_actions.items()]
Materialize(us, ua) ==
    [i \in 1..Len(ua) |->
        LET found == find_user(us, ua[i].uname)
        IN [user |-> IF found.kind = "user" THEN found.user ELSE None,
            uact |-> ua[i].uact]]

\* The loops are over: the dict becomes the list of pairs
CorrelateReturn ==
    /\ pc = "correlate"
    /\ ai > Len(actions)
    /\ IF MaterializeError(users, uname_actions) # NoCall
       THEN /\ pc' = "raised"
            /\ ret' = MaterializeError(users, uname_actions)
       ELSE /\ pc' = "done"
            /\ ret' = [kind |-> "Grouping",
                       pairs |-> Materialize(users, uname_actions)]
    /\ UNCHANGED <<dataVars, configVars, arg, correlateVars, deliveryVars>>

CorrelatePeople ==
    { (hdr_user :> Str(<<"a","b">>) @@ <<"A">> :> Str(<<"x">>) @@ hdr_email :> Str(<<"1","@">>)),
      (hdr_user :> Str(<<"a","b","c">>) @@ <<"A">> :> Str(<<"y">>) @@ hdr_email :> Str(<<"2","@">>)),
      (hdr_user :> Str(<<"C","d">>) @@ <<"A">> :> Str(<<"z">>) @@ hdr_email :> Str(<<"3","@">>)),
      (hdr_user :> Str(<<"C","d">>) @@ <<"A">> :> Str(<<"v">>) @@ hdr_email :> Str(<<"4","@">>)),
      (<<"A">> :> Str(<<"w">>) @@ hdr_email :> Str(<<"5","@">>)) }

Assignees ==
    { <<"x">>, <<"Z","/","x">>, <<"y","/","w">>, <<"x","/","a","b">>,
      <<"q","/","x">>, <<"v","/"," ","z">> }

CorrelateActions ==
    { (hdr_user :> Str(a) @@ hdr_id :> Str(<<"i">> \o a) @@ hdr_status :> Str(<<"O","p","e","n">>))
        : a \in Assignees }

InitCorrelate ==
    /\ users \in {sheet_to_dict(r, tab_user) : r \in SeqsUpTo(CorrelatePeople, MaxUsers)}
    /\ actions \in {sheet_to_dict(r, tab_action) : r \in SeqsUpTo(CorrelateActions, MaxActions)}
    /\ arg = None
    /\ pc = "correlate"
    /\ ret = NoCall
    /\ ai = 1 /\ ti = 1 /\ uname_actions = <<>>
    /\ IdleConfig /\ IdleDelivery

NextCorrelate == CorrelateToken \/ CorrelateReturn

SpecCorrelate == InitCorrelate /\ [][NextCorrelate]_vars

\* The assignee tokens in the order correlate scans them: actions top to
\* bottom, each assignee field left to right.
TokenList(acts) ==
    LET F[i \in 0..Len(acts)] ==
            IF i = 0 THEN <<>>
            ELSE LET tokens == split(Get(acts[i], hdr_user).v, "/")
                 IN F[i - 1] \o [t \in 1..Len(tokens) |->
                                    [a |-> i, t |-> t, token |-> tokens[t]]]
    IN F[Len(acts)]

\* What a token resolves to
Resolve(us, tok) == find_user(us, Str(tok.token))

\* C4: every assignee gets its own copy of an action: each token's action is in
\* the group of the person the token resolves to, and a person's group is the
\* actions having a token that resolves to that person, one per such token, in
\* the order of the scan.
CorrelateCopies ==
    (pc = "done" /\ ret.kind = "Grouping") =>
        LET tl == TokenList(actions)
            res == [k \in 1..Len(tl) |-> Resolve(users, tl[k])]
            pairs == ret.pairs
        IN /\ \A k \in 1..Len(tl) :
                  /\ res[k].kind = "user"
                  /\ \E p \in 1..Len(pairs) :
                         /\ pairs[p].user = res[k].user
                         /\ \E n \in 1..Len(pairs[p].uact) :
                                pairs[p].uact[n] = actions[tl[k].a]
           /\ \A p \in 1..Len(pairs) :
                  LET mine == SelectSeq([k \in 1..Len(tl) |-> k],
                                  LAMBDA k : res[k].user = pairs[p].user)
                  IN pairs[p].uact = [n \in 1..Len(mine) |-> actions[tl[mine[n]].a]]

\* An action assigned to two people is in both groups.
CorrelateCopiesWitness ==
    /\ pc = "done" /\ ret.kind = "Grouping"
    /\ \E p, q \in 1..Len(ret.pairs) :
           /\ p # q
           /\ \E n \in 1..Len(ret.pairs[p].uact), m \in 1..Len(ret.pairs[q].uact) :
                  ret.pairs[p].uact[n] = ret.pairs[q].uact[m]

\* C5: correlate is fail-fast. The first token that resolves to no person
\* raises MissingUser carrying the token, the action's id and its provenance
\* label; the scan never moves past it, and no Grouping is returned.
CorrelateFailFast ==
    LET tl == TokenList(actions)
        kindOf == [k \in 1..Len(tl) |-> Resolve(users, tl[k]).kind]
        bad == {k \in 1..Len(tl) : kindOf[k] # "user"}
        first == CHOOSE k \in bad : \A j \in bad : k <= j
    IN /\ (pc = "raised" /\ ret.kind = "MissingUser") =>
              \E k \in 1..Len(tl) :
                  /\ tl[k].a = ai /\ tl[k].t = ti
                  /\ kindOf[k] = "None"
                  /\ \A j \in 1..(k - 1) : kindOf[j] = "user"
                  /\ ret.username = tl[k].token
                  /\ ret.record = Get(actions[ai], hdr_id)
                  /\ ret.row = Get(actions[ai], ROW_HEADER)
       /\ (bad # {} /\ kindOf[first] = "None") =>
              /\ pc # "done"
              /\ ret.kind \in {"pending", "MissingUser"}
              /\ (ai < tl[first].a \/ (ai = tl[first].a /\ ti <= tl[first].t))

\* A token resolved to nobody after another had been accumulated.
CorrelateFailFastWitness ==
    /\ pc = "raised" /\ ret.kind = "MissingUser"
    /\ uname_actions # <<>>
    /\ ai < Len(actions)

\* C6: the Grouping holds one pair per resolved person, no pair has an empty
\* action list, and the pairs are in the order in which the scan first met
\* each person.
GroupingShape ==
    (pc = "done" /\ ret.kind = "Grouping") =>
        LET tl == TokenList(actions)
            res == [k \in 1..Len(tl) |-> Resolve(users, tl[k]).user]
            pairs == ret.pairs
            FirstMet(u) == CHOOSE k \in 1..Len(tl) :
                               res[k] = u /\ \A j \in 1..(k - 1) : res[j] # u
        IN /\ {pairs[p].user : p \in 1..Len(pairs)} = {res[k] : k \in 1..Len(tl)}
           /\ \A p, q \in 1..Len(pairs) : p # q => pairs[p].user # pairs[q].user
           /\ \A p \in 1..Len(pairs) : pairs[p].uact # <<>>
           /\ \A p, q \in 1..Len(pairs) :
                  p < q => FirstMet(pairs[p].user) < FirstMet(pairs[q].user)

\* Two people, the second of them met again after the first.
GroupingShapeWitness ==
    /\ pc = "done" /\ ret.kind = "Grouping"
    /\ Len(ret.pairs) >= 2
    /\ \E p \in 1..Len(ret.pairs) : Len(ret.pairs[p].uact) >= 2

\* C19: when every assignee token of every action resolves to exactly one
\* person, correlate succeeds and the person of each returned pair is the very
\* record the tokens resolved to: resolving the accumulated key again raises
\* nothing, finds that person and no other, and merges no two people's actions.
MaterializeSame ==
    LET tl == TokenList(actions)
        res == [k \in 1..Len(tl) |-> Resolve(users, tl[k])]
    IN (pc # "correlate" /\ \A k \in 1..Len(tl) : res[k].kind = "user") =>
           /\ pc = "done"
           /\ ret.kind = "Grouping"
           /\ \A k \in 1..Len(tl) :
                  \E p \in 1..Len(ret.pairs) :
                      /\ ret.pairs[p].user = res[k].user
                      /\ \E n \in 1..Len(ret.pairs[p].uact) :
                             ret.pairs[p].uact[n] = actions[tl[k].a]
           /\ \A p \in 1..Len(ret.pairs) :
                  \A n \in 1..Len(ret.pairs[p].uact) :
                      \E k \in 1..Len(tl) :
                          /\ actions[tl[k].a] = ret.pairs[p].uact[n]
                          /\ res[k].user = ret.pairs[p].user

-----------------------------------------------------------------------------
(* The template substitutor: FIELD_RE, Reminders.substitute and            *)
(* Reminders.get_fields.                                                   *)

RECURSIVE FieldMatches_nearest(_, _)
FieldMatches_nearest(s, from) ==
    IF from > Len(s) THEN <<>>
    ELSE IF s[from] # "{" THEN FieldMatches_nearest(s, from + 1)
    ELSE LET ends == {j \in from..Len(s) : s[j] = "\n"}
             eol == IF ends = {} THEN Len(s) + 1
                    ELSE CHOOSE j \in ends : \A k \in ends : j <= k
             closes == {j \in (from + 1)..(eol - 1) : s[j] = "}"}
         IN IF closes = {} THEN FieldMatches_nearest(s, from + 1)
            ELSE LET to == CHOOSE j \in closes : \A k \in closes : j <= k
                 IN <<<<from, to>>>> \o FieldMatches_nearest(s, to + 1)

RECURSIVE FieldMatches(_, _)
\* The matches of FIELD_RE = re.compile(r'\{.*\}') in s from position from on,
\* as findall and sub find them: the leftmost '{' that a '}' follows on the same
\* line ('.' matches no newline), up to the last such '}' ('*' is greedy); the
\* search goes on after the match.
FieldMatches(s, from) ==
    IF from > Len(s) THEN <<>>
    ELSE IF s[from] # "{" THEN FieldMatches(s, from + 1)
    ELSE LET ends == {j \in from..Len(s) : s[j] = "\n"}
             eol == IF ends = {} THEN Len(s) + 1
                    ELSE CHOOSE j \in ends : \A k \in ends : j <= k
             closes == {j \in (from + 1)..(eol - 1) : s[j] = "}"}
         IN IF closes = {} THEN FieldMatches(s, from + 1)
            ELSE LET to == CHOOSE j \in closes : \A k \in closes : k <= j
                 IN <<<<from, to>>>> \o FieldMatches(s, to + 1)

\* str.replace(c, '') for a one-character c
Without(s, c) == SelectSeq(s, LAMBDA x : x # c)

\* set([_.replace('{', '').replace('}', '') for _ in FIELD_RE.findall(string)])
get_fields(string) ==
    LET ms == FieldMatches(string, 1)
    IN {Without(Without(SubSeq(string, ms[i][1], ms[i][2]), "{"), "}")
            : i \in 1..Len(ms)}

\* substitute's new_value(group): the replacement, or the ValueError raised.
\* re.sub takes a replacement of None as the empty string and raises TypeError
\* for any other replacement that is no str, when it joins the pieces.
new_value(group, user, n) ==
    LET v == SubSeq(group, 2, Len(group) - 1)
    IN IF v = DAYS THEN [kind |-> "str", s |-> Dec(n)]
       ELSE IF v \in DOMAIN user
            THEN IF IsStr(user[v]) THEN [kind |-> "str", s |-> user[v].v]
                 ELSE IF user[v].t = "None" THEN [kind |-> "str", s |-> <<>>]
                 ELSE [kind |-> "TypeError"]
            ELSE [kind |-> "ValueError", field |-> v]

RECURSIVE SubFrom(_, _, _, _, _)
\* FIELD_RE.sub from position from on: the text up to each match, the match's
\* replacement, and the text after the last match. new_value is called for
\* every match in turn, so the first ValueError ends it; the pieces are joined
\* after the last match, so a TypeError is raised only when no match raised
\* ValueError.
SubFrom(template, ms, from, user, n) ==
    IF ms = <<>> THEN [kind |-> "str", s |-> SubSeq(template, from, Len(template))]
    ELSE LET m == Head(ms)
             value == new_value(SubSeq(template, m[1], m[2]), user, n)
         IN IF value.kind = "ValueError" THEN value
            ELSE LET rest == SubFrom(template, Tail(ms), m[2] + 1, user, n)
                 IN IF rest.kind = "ValueError" THEN rest
                    ELSE IF value.kind # "str" THEN value
                    ELSE IF rest.kind # "str" THEN rest
                    ELSE [kind |-> "str",
                          s |-> SubSeq(template, from, m[1] - 1) \o value.s \o rest.s]

\* Reminders.substitute
substitute(template, user, n) ==
    SubFrom(template, FieldMatches(template, 1), 1, user, n)

RECURSIVE Flatten(_)
\* The concatenation of a sequence of strings
Flatten(pieces) ==
    IF pieces = <<>> THEN <<>> ELSE Head(pieces) \o Flatten(Tail(pieces))

TemplatePieces ==
    { <<"{","F","}">>, <<"{","L","}">>, <<"{","d","a","y","s","}">>, <<"{","Z","}">>,
      <<"x">>, <<" ">>, <<"\n">>, <<"{">>, <<"}">> }

TemplatePeople ==
    { (hdr_user :> Str(<<"F","r">>) @@ hdr_email :> Str(<<"f","@">>)
         @@ <<"F">> :> Str(<<"F","r","e","d">>) @@ <<"L">> :> Str(<<"F","l">>)),
      (hdr_user :> Str(<<"B","a">>) @@ hdr_email :> Str(<<"b","@">>)
         @@ <<"F">> :> Str(<<>>) @@ <<"L">> :> NaN),
      (hdr_user :> Str(<<"W","i">>) @@ hdr_email :> Str(<<"w","@">>)
         @@ <<"F">> :> Str(<<"W">>) @@ <<"L">> :> None
         @@ <<"F","}","{","Z">> :> Str(<<"v">>)) }

InitTemplate ==
    /\ users \in {sheet_to_dict(<<u>>, tab_user) : u \in TemplatePeople}
    /\ actions = <<>>
    /\ arg \in {Str(Flatten(ps)) : ps \in SeqsUpTo(TemplatePieces, MaxPieces)}
    /\ days \in {0, 14}
    /\ msg_preamble = <<>> /\ msg_close = <<>> /\ msg_table_headers = <<>>
    /\ unset = {}
    /\ pc = "template"
    /\ ret = NoCall
    /\ IdleCorrelate /\ IdleDelivery

Substitute ==
    /\ pc = "template"
    /\ ret' = substitute(arg.v, users[1], days)
    /\ pc' = "substituted"
    /\ UNCHANGED <<dataVars, configVars, arg, correlateVars, deliveryVars>>

GetFields ==
    /\ pc = "template"
    /\ ret' = [kind |-> "set", fields |-> get_fields(arg.v)]
    /\ pc' = "fields"
    /\ UNCHANGED <<dataVars, configVars, arg, correlateVars, deliveryVars>>

NextTemplate == Substitute \/ GetFields

SpecTemplate == InitTemplate /\ [][NextTemplate]_vars

\* The placeholders of a template as the specification delimits them: from a
\* '{' to the nearest '}' after it. A template is well formed when its braces
\* pair up that way: a name, without brace or newline, inside each placeholder,
\* and no brace outside one.
Placeholders(s) == FieldMatches_nearest(s, 1)

WellFormed(s) ==
    LET ps == Placeholders(s)
        inside(i) == \E n \in 1..Len(ps) : ps[n][1] <= i /\ i <= ps[n][2]
    IN /\ \A i \in 1..Len(s) : s[i] \in {"{", "}"} => inside(i)
       /\ \A n \in 1..Len(ps) :
              /\ ps[n][1] + 1 < ps[n][2]
              /\ \A i \in (ps[n][1] + 1)..(ps[n][2] - 1) : s[i] \notin {"{", "}", "\n"}

PlaceholderNames(s) ==
    LET ps == Placeholders(s)
    IN {SubSeq(s, ps[n][1] + 1, ps[n][2] - 1) : n \in 1..Len(ps)}

RECURSIVE Expand(_, _, _, _, _)
\* Each placeholder replaced on its own, the text between them kept
Expand(s, ps, from, user, n) ==
    IF ps = <<>> THEN SubSeq(s, from, Len(s))
    ELSE LET name == SubSeq(s, Head(ps)[1] + 1, Head(ps)[2] - 1)
         IN SubSeq(s, from, Head(ps)[1] - 1)
            \o (IF name = DAYS THEN Dec(n) ELSE user[name].v)
            \o Expand(s, Tail(ps), Head(ps)[2] + 1, user, n)

\* C10: in a well-formed template, with any number of placeholders on a line,
\* substitute replaces each placeholder separately ({days} by the decimal
\* string of the number, {field} by the person's value) and leaves the text
\* between them unchanged, and get_fields returns exactly the set of the
\* placeholders' inner names.
PlaceholdersNearest ==
    /\ (/\ pc = "substituted"
        /\ WellFormed(arg.v)
        /\ \A f \in PlaceholderNames(arg.v) :
               f = DAYS \/ (f \in DOMAIN users[1] /\ IsStr(users[1][f])))
           => ret = [kind |-> "str",
                     s |-> Expand(arg.v, Placeholders(arg.v), 1, users[1], days)]
    /\ (pc = "fields" /\ WellFormed(arg.v))
           => ret.fields = PlaceholderNames(arg.v)

\* C11: substitute is total-or-nothing: when a placeholder of the template names
\* neither 'days' nor a field of the person, substitute fails with the
\* unknown-field error and returns no string, however many earlier
\* placeholders were resolvable.
SubstituteTotal ==
    (/\ pc = "substituted"
     /\ WellFormed(arg.v)
     /\ \E f \in PlaceholderNames(arg.v) : f # DAYS /\ f \notin DOMAIN users[1])
        => ret.kind = "ValueError"

-----------------------------------------------------------------------------
(* The validators: Reminders.validate_users and Reminders.validate_actions. *)

Pad2(n) == IF n < 10 THEN <<"0">> \o Dec(n) ELSE Dec(n)

\* str(value), as an f-string formats it. A datetime is day d of March 2030
\* at second s of the day.
PyStr(value) ==
    IF value.t = "str" THEN value.v
    ELSE IF value.t = "None" THEN <<"N","o","n","e">>
    ELSE IF value.t = "float" THEN <<"n","a","n">>
    ELSE <<"2","0","3","0","-","0","3","-">> \o Pad2(value.v[1]) \o <<" ">>
         \o Pad2(value.v[2] \div 3600) \o <<":">>
         \o Pad2((value.v[2] % 3600) \div 60) \o <<":">>
         \o Pad2(value.v[2] % 60)

\* Reminders.valid_string
valid_string(value) == IsStr(value) /\ value.v # <<>>

valid_date_notnone(value) == value.t # "None"

\* Reminders.valid_date: isinstance(value, datetime.date), which a datetime is
valid_date(value) == value.t \in {"date", "datetime"}

\* validate_users' fields: the names the two templates hold, without 'days'
\* and the email field
RequiredUserFields(preamble, close) ==
    (get_fields(preamble) \cup get_fields(close)) \ {DAYS, hdr_email}

\* validate_actions' fields: the table's columns without the assignee and the
\* due-date columns
RequiredActionFields(headers) ==
    {headers[i] : i \in 1..Len(headers)} \ {hdr_user, hdr_due}

\* The body of validate_users' loop: the record's message, if it has one
user_errors(user, fields) ==
    LET missing == fields \ DOMAIN user
        reasons ==
            (IF ~valid_string(Get(user, hdr_email)) THEN <<<<"m","i","s","s","i","n","g"," ","e","m","a","i","l">>>> ELSE <<>>)
            \o (IF missing # {}
                THEN <<<<"m","i","s","s","i","n","g"," ","e","m","a","i","l"," ","f","i","e","l","d","s"," ">> \o join(<<"/">>, sorted(missing))>>
                ELSE <<>>)
    IN IF reasons = <<>> THEN <<>>
       ELSE <<PyStr(Get(user, hdr_user)) \o <<" ","(">> \o PyStr(Get(user, ROW_HEADER))
              \o <<")"," ","e","r","r","o","r","(","s",")",":"," ">> \o join(<<","," ">>, reasons)>>

\* Reminders.validate_users
validate_users(us, preamble, close) ==
    LET fields == RequiredUserFields(preamble, close)
    IN Flatten([i \in 1..Len(us) |-> user_errors(us[i], fields)])

\* The body of validate_actions' loop: the record's message, if it has one
action_errors(action, fields) ==
    LET missing == fields \ DOMAIN action
        reasons ==
            (IF ~valid_string(Get(action, hdr_user)) THEN <<<<"m","i","s","s","i","n","g"," ","a","s","s","i","g","n","m","e","n","t">>>> ELSE <<>>)
            \o (IF ~valid_date(Get(action, hdr_due)) THEN <<<<"m","i","s","s","i","n","g"," ","d","u","e"," ","d","a","t","e">>>> ELSE <<>>)
            \o (IF missing # {}
                THEN <<<<"m","i","s","s","i","n","g"," ","t","a","b","l","e"," ","f","i","e","l","d","s"," ">> \o join(<<"/">>, sorted(missing))>>
                ELSE <<>>)
    IN IF reasons = <<>> THEN <<>>
       ELSE <<PyStr(Get(action, hdr_id)) \o <<" ","(">> \o PyStr(Get(action, ROW_HEADER))
              \o <<")"," ","e","r","r","o","r","(","s",")",":"," ">> \o join(<<","," ">>, reasons)>>

\* Reminders.validate_actions
validate_actions(acts, headers) ==
    LET fields == RequiredActionFields(headers)
    IN Flatten([i \in 1..Len(acts) |-> action_errors(acts[i], fields)])

ValidatePeople ==
    { (hdr_user :> Str(<<"F","r">>) @@ hdr_email :> Str(<<"f","@">>)
         @@ <<"F">> :> Str(<<"F">>) @@ <<"L">> :> Str(<<"L">>)),
      (hdr_user :> Str(<<"W","i">>) @@ hdr_email :> Str(<<>>)
         @@ <<"F">> :> Str(<<"W">>) @@ <<"L">> :> Str(<<"L">>)),
      (hdr_user :> Str(<<"B","a">>) @@ <<"F">> :> Str(<<"B">>)),
      (hdr_user :> Str(<<"B","e">>) @@ hdr_email :> NaN
         @@ <<"F">> :> Str(<<"B">>) @@ <<"L">> :> Str(<<"R">>)),
      (hdr_email :> Str(<<"p","@">>) @@ <<"L">> :> Str(<<"P">>)) }

Preambles ==
    { <<"x">>, <<"{","F","}">>, <<"{","F","}"," ","{","L","}">>,
      <<"{","E","}","\n","{","d","a","y","s","}">> }

Closings ==
    { <<>>, <<"{","L","}">>, <<"{","Z","}","\n","{","F","}">> }

ValidateActionRows ==
    { (hdr_user :> Str(<<"x">>) @@ hdr_due :> DateTime(24, 0) @@ hdr_id :> Str(<<"i","1">>)
         @@ hdr_status :> Str(<<"O","p","e","n">>) @@ <<"N">> :> Str(<<"n">>)),
      (hdr_user :> Str(<<>>) @@ hdr_due :> DateTime(3, 34200) @@ hdr_id :> Str(<<"i","2">>)
         @@ hdr_status :> Str(<<"O","p","e","n">>) @@ <<"N">> :> NaN),
      (hdr_user :> Str(<<"y">>) @@ hdr_due :> NaN @@ hdr_id :> Str(<<"i","3">>)
         @@ hdr_status :> Str(<<"O","p","e","n">>) @@ <<"N">> :> Str(<<"n">>)),
      (hdr_due :> None @@ hdr_status :> Str(<<"O","p","e","n">>)),
      (hdr_user :> Str(<<"x">>) @@ hdr_due :> Str(<<"2","4">>) @@ hdr_status :> NaN),
      (hdr_user :> Str(<<"z">>) @@ hdr_due :> DateTime(9, 0) @@ hdr_id :> Str(<<"i","6">>)) }

TableHeaders ==
    { <<hdr_id, <<"N">>, hdr_user, hdr_due>>,
      <<hdr_id, hdr_user>>,
      <<<<"Z">>, <<"N">>, hdr_status>> }

InitValidate ==
    /\ \/ /\ users \in {sheet_to_dict(r, tab_user) : r \in SeqsUpTo(ValidatePeople, MaxUsers)}
          /\ actions = <<>>
          /\ msg_preamble \in Preambles
          /\ msg_close \in Closings
          /\ msg_table_headers = <<>>
          /\ pc = "validate_users"
       \/ /\ users = <<>>
          /\ actions \in {sheet_to_dict(r, tab_action)
                              : r \in SeqsUpTo(ValidateActionRows, MaxActions)}
          /\ msg_preamble = <<>>
          /\ msg_close = <<>>
          /\ msg_table_headers \in TableHeaders
          /\ pc = "validate_actions"
    /\ days = 0
    /\ unset = {}
    /\ arg = None
    /\ ret = NoCall
    /\ IdleCorrelate /\ IdleDelivery

ValidateUsers ==
    /\ pc = "validate_users"
    /\ ret' = [kind |-> "list", items |-> validate_users(users, msg_preamble, msg_close)]
    /\ pc' = "users_validated"
    /\ UNCHANGED <<dataVars, configVars, arg, correlateVars, deliveryVars>>

ValidateActions ==
    /\ pc = "validate_actions"
    /\ ret' = [kind |-> "list", items |-> validate_actions(actions, msg_table_headers)]
    /\ pc' = "actions_validated"
    /\ UNCHANGED <<dataVars, configVars, arg, correlateVars, deliveryVars>>

NextValidate == ValidateUsers \/ ValidateActions

SpecValidate == InitValidate /\ [][NextValidate]_vars

\* The indices of the records for which bad holds, in input order
IndicesWhere(n, bad(_)) == SelectSeq([i \in 1..n |-> i], bad)

\* A person is invalid: its email is empty or no string, or a field name the
\* preamble or the closing refers to is absent from its fields
InvalidUser(user) ==
    \/ ~(Get(user, hdr_email).t = "str" /\ Get(user, hdr_email).v # <<>>)
    \/ \E f \in (PlaceholderNames(msg_preamble) \cup PlaceholderNames(msg_close))
                    \ {DAYS, hdr_email} : f \notin DOMAIN user

\* An action is invalid: its assignee is empty or no string, its due field is
\* no date, or a required table column is absent from its fields
InvalidAction(action) ==
    \/ ~(Get(action, hdr_user).t = "str" /\ Get(action, hdr_user).v # <<>>)
    \/ Get(action, hdr_due).t \notin {"date", "datetime"}
    \/ \E f \in {msg_table_headers[i] : i \in 1..Len(msg_table_headers)}
                    \ {hdr_user, hdr_due} : f \notin DOMAIN action

\* message is about record: it starts with the record's id and provenance label
MessageOf(message, record, id) ==
    LET head == PyStr(Get(record, id)) \o <<" ","(">> \o PyStr(Get(record, ROW_HEADER))
                \o <<")"," ","e","r","r","o","r","(","s",")",":"," ">>
    IN Len(message) > Len(head) /\ SubSeq(message, 1, Len(head)) = head

\* C7: validate_users and validate_actions are fail-complete: N invalid records
\* give exactly N messages, one per invalid record in input order, and none
\* when every record is valid.
ValidateComplete ==
    /\ (pc = "users_validated" /\ WellFormed(msg_preamble) /\ WellFormed(msg_close)) =>
           LET bad == IndicesWhere(Len(users), LAMBDA i : InvalidUser(users[i]))
           IN /\ Len(ret.items) = Len(bad)
              /\ \A n \in 1..Len(bad) : MessageOf(ret.items[n], users[bad[n]], hdr_user)
    /\ pc = "actions_validated" =>
           LET bad == IndicesWhere(Len(actions), LAMBDA i : InvalidAction(actions[i]))
           IN /\ Len(ret.items) = Len(bad)
              /\ \A n \in 1..Len(bad) : MessageOf(ret.items[n], actions[bad[n]], hdr_id)

\* The message the claims give for a record: the complaints that apply, in the
\* claim's order, comma-joined after the id and the provenance label
ClaimedMessage(record, id, complaints) ==
    PyStr(Get(record, id)) \o <<" ","(">> \o PyStr(Get(record, ROW_HEADER))
        \o <<")"," ","e","r","r","o","r","(","s",")",":"," ">> \o join(<<","," ">>, complaints)

ClaimedUserComplaints(user, names) ==
    (IF ~(Get(user, hdr_email).t = "str" /\ Get(user, hdr_email).v # <<>>)
     THEN <<<<"m","i","s","s","i","n","g"," ","e","m","a","i","l">>>> ELSE <<>>)
    \o (IF names \ DOMAIN user # {}
        THEN <<<<"m","i","s","s","i","n","g"," ","e","m","a","i","l"," ","f","i","e","l","d","s"," ">> \o join(<<"/">>, sorted(names \ DOMAIN user))>>
        ELSE <<>>)

\* C8: validate_users reports a person iff its email is empty or no string, or
\* a placeholder name of the preamble or the closing (other than 'days' and the
\* email field) is absent from the person's fields; the message is
\* '<id> (<provenance>) error(s): ' and then 'missing email', 'missing email
\* fields <sorted names joined by />', those that apply, comma-joined.
UsersReported ==
    (pc = "users_validated" /\ WellFormed(msg_preamble) /\ WellFormed(msg_close)) =>
        LET names == (PlaceholderNames(msg_preamble) \cup PlaceholderNames(msg_close))
                         \ {DAYS, hdr_email}
            bad == IndicesWhere(Len(users),
                       LAMBDA i : ClaimedUserComplaints(users[i], names) # <<>>)
        IN ret.items = [n \in 1..Len(bad) |->
                           ClaimedMessage(users[bad[n]], hdr_user,
                               ClaimedUserComplaints(users[bad[n]], names))]

ClaimedActionComplaints(action, headers) ==
    LET columns == {headers[i] : i \in 1..Len(headers)} \ {hdr_user, hdr_due}
    IN (IF ~(Get(action, hdr_user).t = "str" /\ Get(action, hdr_user).v # <<>>)
        THEN <<<<"m","i","s","s","i","n","g"," ","a","s","s","i","g","n","m","e","n","t">>>> ELSE <<>>)
       \o (IF Get(action, hdr_due).t \notin {"date", "datetime"}
           THEN <<<<"m","i","s","s","i","n","g"," ","d","u","e"," ","d","a","t","e">>>> ELSE <<>>)
       \o (IF columns \ DOMAIN action # {}
           THEN <<<<"m","i","s","s","i","n","g"," ","t","a","b","l","e"," ","f","i","e","l","d","s"," ">>
                      \o join(<<"/">>, sorted(columns \ DOMAIN action))>>
           ELSE <<>>)

\* C9: validate_actions reports an action iff its assignee is empty or no
\* string, or its due field is no date, or a table column other than the
\* assignee and due-date columns is absent from the action's fields; the message
\* lists 'missing assignment', 'missing due date', 'missing table fields <sorted
\* names joined by />' in that order, comma-joined, after
\* '<id> (<provenance>) error(s): '.
ActionsReported ==
    pc = "actions_validated" =>
        LET bad == IndicesWhere(Len(actions),
                       LAMBDA i : ClaimedActionComplaints(actions[i], msg_table_headers) # <<>>)
        IN ret.items = [n \in 1..Len(bad) |->
                           ClaimedMessage(actions[bad[n]], hdr_id,
                               ClaimedActionComplaints(actions[bad[n]], msg_table_headers))]

\* An action with all three complaints, two columns missing, is reported after
\* a valid action.
ActionsReportedWitness ==
    /\ pc = "actions_validated"
    /\ Len(actions) >= 2
    /\ ClaimedActionComplaints(actions[1], msg_table_headers) = <<>>
    /\ Len(ClaimedActionComplaints(actions[2], msg_table_headers)) = 3
    /\ Cardinality(RequiredActionFields(msg_table_headers) \ DOMAIN actions[2]) >= 2
    /\ Len(ret.items) = 1

\* C20: validation is a sufficient gate for templating: for a person
\* validate_users reports no error for, substitute on the template does not
\* fail with the unknown-field error; the names validate_users checks are the
\* names substitute looks up.
ValidatedSubstitutes ==
    (pc = "substituted" /\ validate_users(users, arg.v, <<>>) = <<>>
                        /\ validate_users(users, <<>>, arg.v) = <<>>)
        => ret.kind # "ValueError"

-----------------------------------------------------------------------------
(* The table renderer: Reminders._format and Reminders._create_table. The  *)
(* table is the grid handed to prettytable: field_names and one add_row    *)
(* per action.                                                             *)

\* str(value.date()) of a datetime: day d of March 2030
DateStr(value) == <<"2","0","3","0","-","0","3","-">> \o Pad2(value.v[1])

\* Reminders._format
_format(value) ==
    IF value.t = "datetime" THEN DateStr(value) ELSE PyStr(value)

\* self.msg_table_align is None: no alignment was configured
NoAlign == "msg_table_align" \in unset

\* Reminders._create_table, up to the rendering of the grid; the loop over
\* self.msg_table_align.items() raises AttributeError when the attribute is
\* None
_create_table(acts, headers) ==
    IF NoAlign THEN [kind |-> "AttributeError"]
    ELSE [kind |-> "table", field_names |-> headers,
          rows |-> [i \in 1..Len(acts) |->
                       [j \in 1..Len(headers) |-> _format(Get(acts[i], headers[j]))]]]

InitTable ==
    /\ users = <<>>
    /\ actions \in {sheet_to_dict(r, tab_action)
                        : r \in SeqsUpTo(ValidateActionRows, MaxActions)}
    /\ msg_preamble = <<>> /\ msg_close = <<>>
    /\ msg_table_headers \in TableHeaders
    /\ days = 0
    /\ unset \in {{}, {"msg_table_align"}}
    /\ arg = None
    /\ pc = "create_table"
    /\ ret = NoCall
    /\ IdleCorrelate /\ IdleDelivery

CreateTable ==
    /\ pc = "create_table"
    /\ ret' = _create_table(actions, msg_table_headers)
    /\ pc' = IF ret'.kind = "table" THEN "table" ELSE "raised"
    /\ UNCHANGED <<dataVars, configVars, arg, correlateVars, deliveryVars>>

NextTable == CreateTable

SpecTable == InitTable /\ [][NextTable]_vars

\* The cell the specification gives for a column of an action
ClaimedCell(action, h) ==
    IF h \notin DOMAIN action THEN <<>>
    ELSE IF action[h].t = "datetime" THEN DateStr(action[h])
    ELSE PyStr(action[h])

\* C12: in the rendered table each action gives one row whose cells follow the
\* configured column order; a date-time cell shows its calendar date only, any
\* other present value its natural string form, and a column missing from the
\* action the empty string.
TableCells ==
    pc = "table" =>
        /\ ret.field_names = msg_table_headers
        /\ ret.rows =
               [i \in 1..Len(actions) |->
                   [j \in 1..Len(msg_table_headers) |->
                       ClaimedCell(actions[i], msg_table_headers[j])]]

-----------------------------------------------------------------------------
(* The delivery orchestrator: Reminders.send_all_emails and                *)
(* Reminders.interactive_send_email, with the mail transport and the       *)
(* operator as the environment.                                            *)

\* class What
SKIP == <<"s","k","i","p">>
EMAIL == <<"e","m","a","i","l">>
SHOW == <<"s","h","o","w">>
EXIT == <<"e","x","i","t">>

\* A line given to Reminders.print: which line it is, whom it is about, and
\* the number or the table it shows
Line(which, user, n) == [line |-> which, user |-> user, n |-> n]

\* message.as_string() raises AttributeError on a header that is neither a
\* str nor None: a To that is an empty cell (nan), and a CC that is the list
\* update_config makes of a configured cc
BadHeader(to_user) ==
    \/ ~IsStr(to_user) /\ to_user # None
    \/ "mail_cc" \notin unset

\* send_email_via_server up to the call of sendmail: the message, or the
\* exception substitute, _create_table or as_string raises
compose(user, acts, preamble, close, n) ==
    LET to_user == Get(user, hdr_email)
        intro == substitute(preamble, user, n)
        closing == substitute(close, user, n)
        table == _create_table(acts, msg_table_headers)
    IN IF intro.kind # "str" THEN intro
       ELSE IF closing.kind # "str" THEN closing
       ELSE IF table.kind # "table" THEN table
       ELSE IF BadHeader(to_user) THEN [kind |-> "AttributeError"]
       ELSE [kind |-> "message", to |-> to_user,
             intro |-> intro.s, actions |-> acts, closing |-> closing.s]

\* What is asked of the mail transport, in order
Opened(history) == Append(history, [op |-> "open", message |-> NoCall])
Sent(history, message) == Append(history, [op |-> "sendmail", message |-> message])
Quit(history) == Append(history, [op |-> "quit", message |-> NoCall])

\* send_all_emails: the announcement, then get_email_server, which the
\* transport lets succeed or fail
BulkStart ==
    /\ pc = "send_all_emails"
    /\ out' = out \o <<Line("sending", None, days)>>
                  \o [i \in 1..Len(user_actions) |->
                         Line("count", Get(user_actions[i].user, hdr_user),
                              Len(user_actions[i].uact))]
    /\ \/ /\ server' = "session"
          /\ smtp' = Opened(smtp)
          /\ idx' = 1
          /\ pc' = "bulk_loop"
          /\ UNCHANGED ret
       \/ /\ pc' = "raised"
          /\ ret' = [kind |-> "SMTPException"]
          /\ UNCHANGED <<server, smtp, idx>>
    /\ UNCHANGED <<dataVars, configVars, arg, correlateVars, user_actions, stdin>>

\* One turn of send_all_emails' loop: send_email_via_server for the pair
BulkSend ==
    /\ pc = "bulk_loop"
    /\ idx <= Len(user_actions)
    /\ LET message == compose(user_actions[idx].user, user_actions[idx].uact,
                              msg_preamble, msg_close, days)
       IN IF message.kind # "message"
          THEN /\ pc' = "raised"
               /\ ret' = message
               /\ UNCHANGED <<smtp, idx>>
          ELSE /\ smtp' = Sent(smtp, message)
               /\ \/ /\ idx' = idx + 1
                     /\ UNCHANGED <<pc, ret>>
                  \/ /\ pc' = "raised"
                     /\ ret' = [kind |-> "SMTPException"]
                     /\ UNCHANGED idx
    /\ UNCHANGED <<dataVars, configVars, arg, correlateVars, user_actions, server, out,
                   stdin>>

BulkQuit_forgotten ==
    /\ pc = "bulk_loop"
    /\ idx > Len(user_actions)
    /\ pc' = "done"
    /\ ret' = None
    /\ UNCHANGED <<dataVars, configVars, arg, correlateVars, user_actions, idx, server,
                   smtp, out, stdin>>

\* The loop is over: server.quit(), which the transport lets succeed or fail
BulkQuit ==
    /\ pc = "bulk_loop"
    /\ idx > Len(user_actions)
    /\ smtp' = Quit(smtp)
    /\ \/ /\ pc' = "done"
          /\ ret' = None
       \/ /\ pc' = "raised"
          /\ ret' = [kind |-> "SMTPException"]
    /\ UNCHANGED <<dataVars, configVars, arg, correlateVars, user_actions, idx, server, out,
                   stdin>>

RECURSIVE PromptLines(_, _, _, _)
\* The lines prompt_for_what prints while it reads the operator's inputs: the
\* question, the four lines of the menu when nothing was chosen yet (what is
\* None or ''), and the table after 'show'
PromptLines(user, acts, what, inputs) ==
    IF what \in {SKIP, EMAIL, EXIT} \/ inputs = <<>> THEN <<>>
    ELSE <<Line("question", Get(user, hdr_user), 0)>>
         \o (IF what = <<>>
             THEN <<Line("menu_skip", None, 0), Line("menu_email", Get(user, hdr_email), 0),
                    Line("menu_show", None, 0), Line("menu_exit", None, 0)>>
             ELSE <<>>)
         \o (IF lower(Head(inputs)) = SHOW THEN <<Line("table", None, acts)>> ELSE <<>>)
         \o PromptLines(user, acts, lower(Head(inputs)), Tail(inputs))

\* Reminders.prompt_for_what on the operator's inputs, the last of which is the
\* first to be skip, email or exit
prompt_for_what(user, acts, inputs) ==
    [what |-> lower(inputs[Len(inputs)]),
     printed |-> <<Line("count", Get(user, hdr_user), Len(acts))>>
                 \o PromptLines(user, acts, <<>>, inputs)]

\* What the operator may type for one pair
OperatorInputs ==
    { <<SKIP>>, <<<<"E","m","a","i","l">>>>, <<EXIT>>, <<SHOW, EMAIL>>, <<<<>>, SKIP>>,
      <<SHOW, <<"x">>, EXIT>> }

IsExit_never(what) == FALSE

\* if what == What.EXIT: break
IsExit(what) == what = EXIT

\* if what == What.EMAIL
IsEmail(what) == what = EMAIL

Session_always(srv, history) == Opened(history)

\* server = server or self.get_email_server(): the transport's history once
\* the turn has its session
Session(srv, history) == IF srv = "None" THEN Opened(history) ELSE history

\* One turn of interactive_send_email's loop
InteractiveTurn ==
    /\ pc = "interactive_send_email"
    /\ idx <= Len(user_actions)
    /\ \E inputs \in OperatorInputs :
        LET user == user_actions[idx].user
            acts == user_actions[idx].uact
            asked == prompt_for_what(user, acts, inputs)
            message == compose(user, acts, msg_preamble, msg_close, days)
            shown == {i \in 1..Len(inputs) : lower(inputs[i]) = SHOW}
        IN IF NoAlign /\ shown # {}
           THEN \* prompt_for_what's _create_table raises at the first 'show'
                LET first == CHOOSE i \in shown : \A j \in shown : i <= j
                    tables == {k \in 1..Len(asked.printed) : asked.printed[k].line = "table"}
                    stop == CHOOSE k \in tables : \A j \in tables : k <= j
                IN /\ out' = out \o SubSeq(asked.printed, 1, stop - 1)
                   /\ stdin' = stdin \o SubSeq(inputs, 1, first)
                   /\ pc' = "raised"
                   /\ ret' = [kind |-> "AttributeError"]
                   /\ UNCHANGED <<idx, server, smtp>>
           ELSE
           /\ out' = out \o asked.printed
           /\ stdin' = stdin \o inputs
           /\ \/ /\ IsExit(asked.what)
                 /\ pc' = "interactive_end"
                 /\ UNCHANGED <<idx, server, smtp, ret>>
              \/ /\ ~IsExit(asked.what) /\ ~IsEmail(asked.what)
                 /\ idx' = idx + 1
                 /\ UNCHANGED <<pc, server, smtp, ret>>
              \/ /\ ~IsExit(asked.what) /\ IsEmail(asked.what)
                 /\ server = "None"
                 /\ pc' = "raised"
                 /\ ret' = [kind |-> "SMTPException"]
                 /\ UNCHANGED <<idx, server, smtp>>
              \/ /\ ~IsExit(asked.what) /\ IsEmail(asked.what)
                 /\ server' = "session"
                 /\ LET history == Session(server, smtp)
                    IN IF message.kind # "message"
                       THEN /\ smtp' = history
                            /\ pc' = "raised"
                            /\ ret' = message
                            /\ UNCHANGED idx
                       ELSE /\ smtp' = Sent(history, message)
                            /\ \/ /\ idx' = idx + 1
                                  /\ UNCHANGED <<pc, ret>>
                               \/ /\ pc' = "raised"
                                  /\ ret' = [kind |-> "SMTPException"]
                                  /\ UNCHANGED idx
    /\ UNCHANGED <<dataVars, configVars, arg, correlateVars, user_actions>>

\* After the loop, or after 'exit': 'No more users', and server.quit() if a
\* session was opened, which the transport lets succeed or fail
InteractiveEnd ==
    /\ \/ pc = "interactive_send_email" /\ idx > Len(user_actions)
       \/ pc = "interactive_end"
    /\ out' = Append(out, Line("no_more_users", None, 0))
    /\ smtp' = IF server # "None" THEN Quit(smtp) ELSE smtp
    /\ \/ /\ pc' = "done"
          /\ ret' = None
       \/ /\ server # "None"
          /\ pc' = "raised"
          /\ ret' = [kind |-> "SMTPException"]
    /\ UNCHANGED <<dataVars, configVars, arg, correlateVars, user_actions, idx, server,
                   stdin>>

DeliveryPeople ==
    { (hdr_user :> Str(<<"F","r">>) @@ hdr_email :> Str(<<"f","@">>)
         @@ <<"F">> :> Str(<<"F","r","e","d">>) @@ <<"L">> :> Str(<<"F","l">>)),
      (hdr_user :> Str(<<"W","i">>) @@ hdr_email :> Str(<<"w","@">>)
         @@ <<"F">> :> Str(<<"W">>) @@ <<"L">> :> Str(<<"F","l">>)),
      (hdr_user :> Str(<<"B","a">>) @@ hdr_email :> Str(<<"b","@">>)
         @@ <<"F">> :> Str(<<"B">>) @@ <<"L">> :> NaN) }

DeliveryActions ==
    << (hdr_user :> Str(<<"F","r","/","B","a">>) @@ hdr_id :> Str(<<"i","1">>)
          @@ hdr_due :> DateTime(24, 0) @@ hdr_status :> Str(<<"O","p","e","n">>)),
       (hdr_user :> Str(<<"W","i","/","B","a">>) @@ hdr_id :> Str(<<"i","2">>)
          @@ hdr_due :> DateTime(3, 34200) @@ hdr_status :> Str(<<"O","p","e","n">>)) >>

\* The Groupings handed to the orchestrator: up to MaxUsers pairs of a person
\* and that person's actions. One person's cell L is empty (nan).
Groupings ==
    LET acts == sheet_to_dict(DeliveryActions, tab_action)
        mine(u) == SelectSeq(acts,
                       LAMBDA a : Contains(Get(a, hdr_user).v, Get(u, hdr_user).v))
        people == {sheet_to_dict(<<u>>, tab_user)[1] : u \in DeliveryPeople}
    IN {[i \in 1..Len(g) |-> [user |-> g[i], uact |-> mine(g[i])]]
            : g \in SeqsUpTo(people, MaxUsers)}

Init ==
    /\ users = <<>>
    /\ actions = <<>>
    /\ user_actions \in Groupings
    /\ msg_preamble \in { <<"{","F","}">>, <<"{","L","}","\n","{","d","a","y","s","}">> }
    /\ msg_close = <<"x","{","F","}">>
    /\ msg_table_headers = <<hdr_id, hdr_user, hdr_due>>
    /\ days = 14
    /\ unset \in {{"mail_cc"}, {}, {"mail_cc", "msg_table_align"}}
    /\ validate_users([i \in 1..Len(user_actions) |-> user_actions[i].user],
                      msg_preamble, msg_close) = <<>>
    /\ arg \in {[interactive |-> b] : b \in BOOLEAN}
    /\ pc = IF arg.interactive THEN "interactive_send_email" ELSE "send_all_emails"
    /\ ret = NoCall
    /\ idx = IF arg.interactive THEN 1 ELSE 0
    /\ server = "None"
    /\ smtp = <<>>
    /\ out = <<>>
    /\ stdin = <<>>
    /\ IdleCorrelate

Next ==
    \/ BulkStart
    \/ BulkSend
    \/ BulkQuit
    \/ InteractiveTurn
    \/ InteractiveEnd

Spec == Init /\ [][Next]_vars

\* C2: however the orchestrator finishes after a mail session was opened
\* (normally, by 'exit', or by an exception while composing or sending), the
\* session was closed before.
SessionAlwaysClosed ==
    (pc \in {"done", "raised"} /\ \E i \in 1..Len(smtp) : smtp[i].op = "open")
        => smtp[Len(smtp)].op = "quit"

\* What bulk mode asks of the transport for a Grouping: open, one sendmail per
\* pair in the Grouping's order, quit
BulkCalls(grouping) ==
    <<"open">> \o [i \in 1..Len(grouping) |-> "sendmail"] \o <<"quit">>

\* C3: bulk mode on a non-empty Grouping opens one session before the first
\* send, sends once per pair in the Grouping's order and closes the session after
\* the last send: at every moment the transport's history is the beginning of
\* open, send 1, ..., send n, quit, and it is all of it when send_all_emails
\* returns.
BulkSession ==
    (~arg.interactive /\ Len(user_actions) >= 1) =>
        LET calls == BulkCalls(user_actions)
        IN /\ Len(smtp) <= Len(calls)
           /\ \A k \in 1..Len(smtp) :
                  /\ smtp[k].op = calls[k]
                  /\ smtp[k].op = "sendmail" =>
                         /\ smtp[k].message.to = Get(user_actions[k - 1].user, hdr_email)
                         /\ smtp[k].message.actions = user_actions[k - 1].uact
           /\ pc = "done" => Len(smtp) = Len(calls)

\* send_all_emails returned after sending to two people.
BulkSessionWitness ==
    /\ ~arg.interactive
    /\ pc = "done"
    /\ Len(user_actions) >= 2
    /\ user_actions[1].user # user_actions[2].user

\* The operator's choices so far, one per pair prompted for: the inputs that
\* ended a prompt
Choices ==
    SelectSeq([i \in 1..Len(stdin) |-> lower(stdin[i])],
              LAMBDA w : w \in {SKIP, EMAIL, EXIT})

\* How many calls op the transport got, and how many pairs were prompted for
Calls(op) == Cardinality({k \in 1..Len(smtp) : smtp[k].op = op})
Prompted == Cardinality({k \in 1..Len(out) : out[k].line = "count"})

\* The operator chose 'exit', and it was the last choice: nobody was prompted
\* for after that pair and the messages sent are those of the earlier 'email'
\* choices
ExitIsLast ==
    LET k == CHOOSE j \in 1..Len(Choices) : Choices[j] = EXIT
    IN /\ Len(Choices) = k
       /\ Prompted = k
       /\ Calls("sendmail") = Cardinality({j \in 1..(k - 1) : Choices[j] = EMAIL})

\* C13, as stated: in interactive mode, once the operator chooses 'exit' for a
\* pair the loop is over: no message is sent for that pair or a later one, no
\* later pair is prompted for, and the run ends normally, not as an error.
ExitEndsNormally ==
    (arg.interactive /\ \E k \in 1..Len(Choices) : Choices[k] = EXIT) =>
        /\ ExitIsLast
        /\ pc \in {"interactive_end", "done"}
        /\ pc = "done" => ret = None

\* C13, amended: in interactive mode, once the operator chooses 'exit' for a
\* pair the loop is over: no message is sent for that pair or a later one and
\* no later pair is prompted for; the run then ends normally, except that when
\* a session was opened by an earlier 'email' its closing (quit) may fail, and
\* that transport failure is how the run ends. With no session opened the run
\* always ends normally.
ExitStops ==
    (arg.interactive /\ \E k \in 1..Len(Choices) : Choices[k] = EXIT) =>
        /\ ExitIsLast
        /\ pc \in {"interactive_end", "done", "raised"}
        /\ pc = "done" => ret = None
        /\ pc = "raised" =>
               /\ ret = [kind |-> "SMTPException"]
               /\ Calls("open") = 1
               /\ smtp[Len(smtp)].op = "quit"

\* The operator chose 'exit' before the last pair, and the run is over.
ExitStopsWitness ==
    /\ arg.interactive
    /\ pc = "done"
    /\ Len(Choices) >= 1
    /\ Choices[Len(Choices)] = EXIT
    /\ Len(Choices) < Len(user_actions)

\* C14: in interactive mode the mail session is opened lazily and at most once:
\* none before the first 'email' choice, the same one for every later 'email',
\* and none at all when the operator only chooses skip, show or exit.
LazySession ==
    arg.interactive =>
        /\ Calls("open") <= 1
        /\ Calls("open") = 1 => \E k \in 1..Len(Choices) : Choices[k] = EMAIL
        /\ smtp # <<>> => smtp[1].op = "open"
        /\ (\A k \in 1..Len(Choices) : Choices[k] # EMAIL) => smtp = <<>>
        /\ Calls("sendmail") <= Cardinality({k \in 1..Len(Choices) : Choices[k] = EMAIL})

\* Two messages were sent in one session.
LazySessionWitness ==
    /\ arg.interactive
    /\ pc = "done"
    /\ Calls("sendmail") = 2
    /\ Calls("open") = 1

-----------------------------------------------------------------------------
(* Reminders.run: the gates, the due-date window, the correlation, the     *)
(* person filter and the dispatch to the orchestrator. The file system, the *)
(* configuration file, the spreadsheet and the clock are the environment,   *)
(* held in arg with the parsed command line.                                *)

\* The attributes __init__ sets to None and update_config fills
Attributes ==
    {"spreadsheet", "tab_user", "tab_action", "hdr_user", "hdr_email", "hdr_id",
     "hdr_due", "hdr_status", "mail_server", "mail_port", "mail_from",
     "mail_password", "mail_subject", "mail_cc", "msg_preamble", "msg_close",
     "msg_table_headers", "msg_table_align"}

\* Reminders.check_config: the errors, in the order of the tests
check_config(missing) ==
    LET test(names, message) ==
            IF names \cap missing # {} THEN <<message>> ELSE <<>>
    IN test({"tab_action"}, "Missing spreadsheet tab name for actions")
       \o test({"tab_user"}, "Missing spreadsheet tab name for users")
       \o test({"hdr_user"}, "Missing user/action user-id field")
       \o test({"hdr_email"}, "Missing user email field")
       \o test({"hdr_id"}, "Missing action identifier field")
       \o test({"hdr_due"}, "Missing action due date field")
       \o test({"hdr_status"}, "Missing action status field")
       \o test({"mail_server", "mail_port"}, "Missing mail server or port")
       \o test({"mail_from"}, "Missing mail from address")
       \o test({"mail_subject"}, "Missing mail subject")
       \o test({"msg_table_headers"}, "Missing message table headers")

\* run's result: the exit code returned
Exit(code) == [kind |-> "exit", code |-> code]

\* if args.config: not a file, return 4; else parse_config
RunConfig ==
    /\ pc = "run"
    /\ IF arg.config = "nofile"
       THEN /\ out' = Append(out, Line("config_not_a_file", None, 0))
            /\ ret' = Exit(4)
            /\ pc' = "returned"
            /\ UNCHANGED unset
       ELSE /\ unset' = IF arg.config = "file" THEN unset \ arg.given ELSE unset
            /\ pc' = "check_config"
            /\ UNCHANGED <<out, ret>>
    /\ LET read(name, text, now) ==
               IF arg.config = "file" /\ name \in arg.given /\ pc' = "check_config"
               THEN text ELSE now
       IN /\ msg_preamble' = read("msg_preamble", arg.preamble, msg_preamble)
          /\ msg_close' = read("msg_close", arg.close, msg_close)
          /\ msg_table_headers' = read("msg_table_headers", arg.columns, msg_table_headers)
    /\ UNCHANGED <<dataVars, days, arg, correlateVars, user_actions, idx, server, smtp,
                   stdin>>

\* errors = self.check_config(); return 5
RunCheckConfig ==
    /\ pc = "check_config"
    /\ LET errors == check_config(unset)
       IN IF errors # <<>>
          THEN /\ out' = Append(out, Line("configuration_errors", None, errors))
               /\ ret' = Exit(5)
               /\ pc' = "returned"
          ELSE /\ pc' = "spreadsheet"
               /\ UNCHANGED <<out, ret>>
    /\ UNCHANGED <<dataVars, configVars, arg, correlateVars, user_actions, idx, server,
                   smtp, stdin>>

\* Path(args.spreadsheet or self.spreadsheet): with no -s, or an empty one,
\* and no configured path, Path(None) raises TypeError;
\* not a file, return 1
RunSpreadsheet ==
    /\ pc = "spreadsheet"
    /\ IF arg.spreadsheet \in {None, Str(<<>>)} /\ "spreadsheet" \in unset
       THEN /\ ret' = [kind |-> "TypeError"]
            /\ pc' = "raised"
            /\ UNCHANGED out
       ELSE IF ~arg.sheet_is_file
       THEN /\ out' = Append(out, Line("spreadsheet_not_a_file", None, 0))
            /\ ret' = Exit(1)
            /\ pc' = "returned"
       ELSE /\ pc' = "users"
            /\ UNCHANGED <<out, ret>>
    /\ UNCHANGED <<dataVars, configVars, arg, correlateVars, user_actions, idx, server,
                   smtp, stdin>>

\* users = sheet_to_dict(...); validate_users, whose get_fields raises TypeError
\* on a template that is None; errors, return 2
RunUsers ==
    /\ pc = "users"
    /\ users' = sheet_to_dict(arg.people, tab_user)
    /\ IF {"msg_preamble", "msg_close"} \cap unset # {}
       THEN /\ ret' = [kind |-> "TypeError"]
            /\ pc' = "raised"
            /\ UNCHANGED out
       ELSE LET errors == validate_users(users', msg_preamble, msg_close)
            IN IF errors # <<>>
               THEN /\ out' = Append(out, Line("invalid_users", None, errors))
                    /\ ret' = Exit(2)
                    /\ pc' = "returned"
               ELSE /\ pc' = "actions"
                    /\ UNCHANGED <<out, ret>>
    /\ UNCHANGED <<actions, configVars, arg, correlateVars, user_actions, idx, server,
                   smtp, stdin>>

\* _.get(self.hdr_status) == 'Open'
IsOpen(action) == Get(action, hdr_status) = Str(<<"O","p","e","n">>)

\* datetime.datetime.now() + datetime.timedelta(days=days)
Before(now, n) == DateTime(now.v[1] + n, now.v[2])

\* _.get(self.hdr_due) < before, of two datetimes
IsDue(action, before) ==
    LET due == Get(action, hdr_due)
    IN \/ due.v[1] < before.v[1]
       \/ due.v[1] = before.v[1] /\ due.v[2] < before.v[2]

\* Reminders._get_time of a datetime: its date
_get_time(value) == value.v[1]

RECURSIVE ByDue(_)
\* sorted(actions, key=lambda i: self._get_time(i[self.hdr_due])): stable
ByDue(acts) ==
    IF acts = <<>> THEN <<>>
    ELSE LET last == acts[Len(acts)]
             front == ByDue(SubSeq(acts, 1, Len(acts) - 1))
             key(a) == _get_time(a[hdr_due])
             n == Cardinality({i \in 1..Len(front) : key(front[i]) <= key(last)})
         IN SubSeq(front, 1, n) \o <<last>> \o SubSeq(front, n + 1, Len(front))

\* The actions run hands to correlate: the open ones, due before the end of the
\* window, by due date
Window(acts, now, n) ==
    ByDue(SelectSeq(SelectSeq(acts, IsOpen), LAMBDA a : IsDue(a, Before(now, n))))

\* actions = sheet_to_dict(...); validate_actions; errors, return 3; else the
\* window, and correlate begins
RunActions ==
    /\ pc = "actions"
    /\ LET sheet == sheet_to_dict(arg.items, tab_action)
           errors == validate_actions(sheet, msg_table_headers)
       IN IF errors # <<>>
          THEN /\ actions' = sheet
               /\ out' = Append(out, Line("invalid_actions", None, errors))
               /\ ret' = Exit(3)
               /\ pc' = "returned"
               /\ UNCHANGED correlateVars
          ELSE /\ actions' = Window(sheet, arg.now, days)
               /\ pc' = "correlate"
               /\ ai' = 1 /\ ti' = 1 /\ uname_actions' = <<>>
               /\ UNCHANGED <<out, ret>>
    /\ UNCHANGED <<users, configVars, arg, user_actions, idx, server, smtp, stdin>>

\* The check for an empty Grouping left out
IsEmpty_never(grouping) == FALSE

\* if not user_actions
IsEmpty(grouping) == grouping = <<>>

\* After correlate: the person filter, the check for an empty Grouping
\* (return 0), and the call of the orchestrator
RunDispatch ==
    /\ pc = "done" /\ ret # None /\ ret.kind = "Grouping"
    /\ LET found == IF arg.person = None THEN [kind |-> "None"]
                    ELSE find_user(users, arg.person)
           kept == IF arg.person = None \/ arg.person.v = <<>> THEN ret.pairs
                   ELSE SelectSeq(ret.pairs,
                            LAMBDA pair : found.kind = "user" /\ pair.user = found.user)
       IN IF arg.person # None /\ arg.person.v # <<>>
             /\ found.kind \in {"AmbiguousUser", "AttributeError"}
          THEN /\ ret' = found
               /\ pc' = "raised"
               /\ UNCHANGED <<user_actions, idx, out>>
          ELSE IF IsEmpty(kept)
          THEN /\ user_actions' = kept
               /\ out' = Append(out, Line("no_open_user_actions", arg.person, days))
               /\ ret' = Exit(0)
               /\ pc' = "returned"
               /\ UNCHANGED idx
          ELSE /\ user_actions' = kept
               /\ pc' = IF arg.interactive THEN "interactive_send_email"
                                             ELSE "send_all_emails"
               /\ idx' = IF arg.interactive THEN 1 ELSE 0
               /\ ret' = NoCall
               /\ UNCHANGED out
    /\ UNCHANGED <<dataVars, configVars, arg, correlateVars, server, smtp, stdin>>

\* The orchestrator returned: return 0
RunReturn ==
    /\ pc = "done" /\ ret = None
    /\ ret' = Exit(0)
    /\ pc' = "returned"
    /\ UNCHANGED <<dataVars, configVars, arg, correlateVars, deliveryVars>>

\* A configuration file that sets everything but the password and the cc list
FullConfig == Attributes \ {"mail_password", "mail_cc"}

\* What a configuration file may set
ConfigFiles ==
    { FullConfig, FullConfig \ {"spreadsheet"}, FullConfig \ {"msg_preamble"},
      FullConfig \ {"msg_table_align"}, FullConfig \ {"mail_server"},
      FullConfig \ {"hdr_due", "mail_port", "tab_user"}, FullConfig \cup {"mail_cc"},
      {} }

\* The rows of the people sheet
RunPerson(id, email, first) ==
    (hdr_user :> Str(id) @@ hdr_email :> email @@ <<"F">> :> Str(first))

PeopleSheets ==
    { << RunPerson(<<"F","r">>, Str(<<"f","@">>), <<"F","r","e","d">>),
         RunPerson(<<"W","i">>, Str(<<"w","@">>), <<"W">>) >>,
      << RunPerson(<<"F","r">>, Str(<<"f","@">>), <<"F","r","e","d">>),
         RunPerson(<<"B","a">>, NaN, <<"B">>) >> }

\* The rows of the action sheet
RunItem(id, who, due, status) ==
    (hdr_id :> Str(id) @@ hdr_user :> Str(who) @@ hdr_due :> due @@ hdr_status :> Str(status))

ActionSheets ==
    LET open == <<"O","p","e","n">>
        i1 == RunItem(<<"i","1">>, <<"F","r">>, DateTime(24, 0), open)
        i2 == RunItem(<<"i","2">>, <<"W","i","/","F","r">>, DateTime(3, 34200), open)
        i3 == RunItem(<<"i","3">>, <<"F","r">>, DateTime(24, 61200), open)
        i4 == RunItem(<<"i","4">>, <<"Z","z">>, DateTime(3, 0), <<"o","p","e","n">>)
        i5 == RunItem(<<"i","5">>, <<"W","i">>, NaN, open)
        i6 == RunItem(<<"i","6">>, <<"W","i">>, DateTime(10, 0), <<"C","l","o","s","e","d">>)
        i7 == RunItem(<<"i","7">>, <<"Z","z">>, DateTime(3, 0), open)
    IN [valid |-> {<<i1, i2>>, <<i3, i4>>, <<i6>>, <<i7, i1>>, <<>>},
        invalid |-> {<<i1, i5>>}]

\* The command line and the environment of a run: runs that differ in the
\* configuration and the files, and runs that differ in the data, the clock and
\* the options
RunInputs ==
    LET base == [config |-> "file", given |-> FullConfig,
                 preamble |-> <<"{","F","}">>, close |-> <<"x">>,
                 columns |-> <<hdr_id, hdr_user, hdr_due>>,
                 spreadsheet |-> None, sheet_is_file |-> TRUE,
                 people |-> CHOOSE p \in PeopleSheets : validate_users(p, <<>>, <<>>) = <<>>,
                 items |-> CHOOSE a \in ActionSheets.valid : Len(a) = 2 /\ IsOpen(a[2]),
                 now |-> DateTime(10, 32400), person |-> None, interactive |-> FALSE]
    IN { [base EXCEPT !.config = c[1], !.given = c[2], !.spreadsheet = f[1],
                      !.sheet_is_file = f[2], !.people = p, !.items = a]
           : c \in {<<"none", FullConfig>>, <<"nofile", FullConfig>>}
                      \cup {<<"file", g>> : g \in ConfigFiles},
             f \in {None, Str(<<>>), Str(<<"s">>)} \X BOOLEAN,
             p \in PeopleSheets,
             a \in ActionSheets.invalid \cup {base.items} }
       \cup
       { [base EXCEPT !.items = a, !.now = n, !.person = q, !.interactive = i]
           : a \in ActionSheets.valid,
             n \in {DateTime(10, 0), DateTime(10, 32400)},
             q \in {None, Str(<<>>), Str(<<"f","r">>), Str(<<"z","z">>), Str(<<"@">>)},
             i \in BOOLEAN }

InitRun ==
    /\ arg \in RunInputs
    /\ days \in {0, 14}
    /\ unset = Attributes
    /\ msg_preamble = <<>> /\ msg_close = <<>> /\ msg_table_headers = <<>>
    /\ users = <<>>
    /\ actions = <<>>
    /\ pc = "run"
    /\ ret = NoCall
    /\ IdleCorrelate /\ IdleDelivery

NextRun ==
    \/ RunConfig
    \/ RunCheckConfig
    \/ RunSpreadsheet
    \/ RunUsers
    \/ RunActions
    \/ CorrelateToken
    \/ CorrelateReturn
    \/ RunDispatch
    \/ BulkStart
    \/ BulkSend
    \/ BulkQuit
    \/ InteractiveTurn
    \/ InteractiveEnd
    \/ RunReturn

SpecRun == InitRun /\ [][NextRun]_vars

-----------------------------------------------------------------------------
(* What run does with an empty Grouping.                                    *)

\* C15: with an empty Grouping (no open action in the window, or a person
\* filter that matches no group) neither orchestrator is entered: the run
\* prints that there are no open user actions, opens no mail session, reads
\* no choice from the operator, sends nothing and returns 0.
EmptyGrouping ==
    /\ pc \in {"send_all_emails", "interactive_send_email"} => user_actions # <<>>
    /\ user_actions = <<>> => smtp = <<>> /\ stdin = <<>>
    /\ (pc = "returned" /\ user_actions = <<>> /\ ret \notin {Exit(c) : c \in 1..5}) =>
           /\ ret = Exit(0)
           /\ out = <<Line("no_open_user_actions", arg.person, days)>>

\* Fred and Wilma have open actions in the window, and the run was for 'zz'
EmptyGroupingWitness ==
    /\ pc = "returned"
    /\ ret = Exit(0)
    /\ uname_actions # <<>>
    /\ arg.person = Str(<<"z","z">>)
    /\ user_actions = <<>>
    /\ out = <<Line("no_open_user_actions", arg.person, days)>>

-----------------------------------------------------------------------------
(* The gates of run, as the specification states them.                      *)

\* The configuration fields the specification requires
Required ==
    {"spreadsheet", "tab_user", "tab_action", "hdr_user", "hdr_email", "hdr_id",
     "hdr_due", "hdr_status", "mail_server", "mail_port", "mail_from",
     "mail_subject", "msg_table_headers"}

\* The required fields this run has no value for: those the configuration file
\* does not set, the spreadsheet path excepted when the command line gives it
MissingRequired ==
    LET set == IF arg.config = "file" THEN arg.given ELSE {}
        line == IF arg.spreadsheet \notin {None, Str(<<>>)} THEN {"spreadsheet"} ELSE {}
    IN Required \ (set \cup line)

\* The exit code of the first gate that fails on this run's inputs, 0 if none
FirstFailure ==
    LET text(name, t) == IF arg.config = "file" /\ name \in arg.given THEN t ELSE <<>>
        people == sheet_to_dict(arg.people, tab_user)
        items == sheet_to_dict(arg.items, tab_action)
    IN IF arg.config = "nofile" THEN 4
       ELSE IF MissingRequired # {} THEN 5
       ELSE IF ~arg.sheet_is_file THEN 1
       ELSE IF validate_users(people, text("msg_preamble", arg.preamble),
                              text("msg_close", arg.close)) # <<>> THEN 2
       ELSE IF validate_actions(items, arg.columns) # <<>> THEN 3
       ELSE 0

\* The run is past its gates or over
PastGates == pc \notin {"run", "check_config", "spreadsheet", "users", "actions"}

\* C16: run checks, in this order, that the configuration file exists, that
\* the configuration is complete, that the spreadsheet exists, that every
\* person is valid and that every action is valid, and returns the code of
\* the first check that fails (4, 5, 1, 2, 3); then no mail session is opened
\* and nothing is sent; run returns 0 only when every gate passed.
GateOrder ==
    /\ FirstFailure # 0 => smtp = <<>>
    /\ (PastGates /\ FirstFailure # 0) => pc = "returned" /\ ret = Exit(FirstFailure)
    /\ (pc = "returned" /\ ret = Exit(0)) => FirstFailure = 0

\* C17: when a required configuration field is absent the run reports one
\* configuration error that lists what is missing and returns 5 before it
\* reads the people or the actions; it never goes on, or fails in another
\* way, with a required field unset.
ConfigComplete ==
    (arg.config # "nofile" /\ MissingRequired # {}) =>
        /\ users = <<>> /\ actions = <<>>
        /\ pc \notin {"run", "check_config"} =>
               /\ pc = "returned"
               /\ ret = Exit(5)
               /\ Len(out) = 1
               /\ out[1].line = "configuration_errors"
               /\ out[1].n # <<>>

\* The calendar days from the day of now to the day an action is due
Gap(action) == Get(action, hdr_due).v[1] - arg.now.v[1]

\* C18: of the actions of the sheet, correlate is handed exactly those whose
\* status is 'Open' and whose due date is at most `days` calendar days after
\* today (overdue ones included); an action with another status is never
\* handed to correlate.
DueWindow ==
    pc = "correlate" =>
        LET sheet == sheet_to_dict(arg.items, tab_action)
            open == Str(<<"O","p","e","n">>)
        IN /\ \A i \in 1..Len(sheet) :
                  (\E j \in 1..Len(actions) : actions[j] = sheet[i])
                      <=> (Get(sheet[i], hdr_status) = open /\ days >= Gap(sheet[i]))
           /\ \A j \in 1..Len(actions) : Get(actions[j], hdr_status) = open

====
